---- MODULE Spec2Model ----
(***************************************************************************)
(* Terminal task manager (oakw/PL_hw7_task_manager).                       *)
(*                                                                         *)
(* State machine of the interactive core: the SQLite-backed Storage, the   *)
(* in-memory TaskList (items, selection, sort key) and the modal           *)
(* TaskEditDialogState, driven one key event at a time by run_app.         *)
(*                                                                         *)
(* Conventions                                                             *)
(*   Option<T>   None is <<>>, Some(x) is <<x>>.                           *)
(*   String      a sequence of characters; a character is a one-character  *)
(*               TLA+ string.  Rust indexes a String by byte, so lengths   *)
(*               and cursor columns are byte counts (see Width).           *)
(*   usize index 0-based, as in the source; Seq positions are index + 1.   *)
(***************************************************************************)
EXTENDS Integers, Sequences, FiniteSets, TLC

(***************************************************************************)
(* Bounds of the exploration                                               *)
(***************************************************************************)
\* longest title buffer the user types into (bytes)
MaxTitleLen == 1
\* longest description buffer the user types into (bytes)
MaxDescLen == 2
\* longest due-date buffer the user types into (bytes)
MaxDateLen == 1
\* highest Id the AUTOINCREMENT column hands out during a session
MaxId == 3
\* most rows the table holds when a session starts
MaxRows == 2
\* farthest a selection index is followed away from 0 and from usize::MAX
MaxIndex == 3

(***************************************************************************)
(* Strings (std::string::String, byte indexed)                             *)
(***************************************************************************)
DigitChars == <<"0", "1", "2", "3", "4", "5", "6", "7", "8", "9">>

IsDigit(c) == \E i \in 1..10 : DigitChars[i] = c

DigitValue(c) == (CHOOSE i \in 1..10 : DigitChars[i] = c) - 1

\* UTF-8 width of a character: one byte for ASCII, two for "é"
Width(c) == IF c = "é" THEN 2 ELSE 1

RECURSIVE ByteLen(_)
\* String::len(): length in bytes
ByteLen(s) == IF s = <<>> THEN 0 ELSE Width(Head(s)) + ByteLen(Tail(s))

\* str::is_char_boundary(i)
IsCharBoundary(s, i) == \E k \in 0..Len(s) : ByteLen(SubSeq(s, 1, k)) = i

\* number of characters that lie before byte index i (i a char boundary)
CharsBefore(s, i) == CHOOSE k \in 0..Len(s) : ByteLen(SubSeq(s, 1, k)) = i

\* String::insert(idx, ch) panics unless idx is a char boundary (idx <= len)
InsertPanics(s, idx) == ~IsCharBoundary(s, idx)

StringInsert(s, idx, ch) ==
    LET k == CharsBefore(s, idx)
    IN  SubSeq(s, 1, k) \o <<ch>> \o SubSeq(s, k + 1, Len(s))

\* String::remove(idx) panics when idx is not the start of a character
RemovePanics(s, idx) == idx >= ByteLen(s) \/ ~IsCharBoundary(s, idx)

StringRemove(s, idx) ==
    LET k == CharsBefore(s, idx)
    IN  SubSeq(s, 1, k) \o SubSeq(s, k + 2, Len(s))

\* i32::to_string() of a priority value
IntToString(n) ==
    IF n < 0 THEN <<"-">> \o <<DigitChars[(-n) + 1]>>
    ELSE IF n < 10 THEN <<DigitChars[n + 1]>>
    ELSE <<DigitChars[(n \div 10) + 1], DigitChars[(n % 10) + 1]>>

(***************************************************************************)
(* Dates (chrono)                                                          *)
(***************************************************************************)
IsLeapYear(y) == (y % 4 = 0 /\ y % 100 # 0) \/ y % 400 = 0

DaysInMonth(y, m) ==
    IF m = 2 THEN (IF IsLeapYear(y) THEN 29 ELSE 28)
    ELSE IF m \in {4, 6, 9, 11} THEN 30 ELSE 31

\* NaiveDate::from_ymd_opt
IsRealDate(y, m, d) == m \in 1..12 /\ d \in 1..DaysInMonth(y, m)

\* number of leading decimal digits of s, at most w of them (scan::number)
LeadingDigits(s, w) ==
    LET n == IF Len(s) < w THEN Len(s) ELSE w
    IN  CHOOSE k \in 0..n :
            /\ \A i \in 1..k : IsDigit(s[i])
            /\ (k = n \/ ~IsDigit(s[k + 1]))

RECURSIVE DigitsValue(_)
\* value of a digit string
DigitsValue(s) ==
    IF s = <<>> THEN 0
    ELSE 10 * DigitsValue(SubSeq(s, 1, Len(s) - 1)) + DigitValue(s[Len(s)])

Drop(s, n) == SubSeq(s, n + 1, Len(s))

\* one numeric item of the format: [ok, value, rest]
ScanNumber(s, w) ==
    LET k == LeadingDigits(s, w)
    IN  [ok |-> k > 0, value |-> DigitsValue(SubSeq(s, 1, k)), rest |-> Drop(s, k)]

\* one literal item of the format: [ok, rest]
ScanLiteral(s, c) ==
    [ok |-> s # <<>> /\ s[1] = c, rest |-> IF s = <<>> THEN s ELSE Tail(s)]

RECURSIVE SkipSpaces(_)
\* the whitespace item of the format: zero or more blanks
SkipSpaces(s) == IF s # <<>> /\ s[1] = " " THEN SkipSpaces(Tail(s)) ELSE s

\* the text save_task appends to the due-date buffer before parsing
MidnightSuffix == <<" ", "0", "0", ":", "0", "0", ":", "0", "0", "Z">>

\* mutant of ParseDateTime: the fields are not checked against the calendar
ParseDateTimeAnyDay(text) ==
    LET d   == ScanNumber(text, 2)
        l1  == ScanLiteral(d.rest, ".")
        m   == ScanNumber(l1.rest, 2)
        l2  == ScanLiteral(m.rest, ".")
        y   == ScanNumber(l2.rest, 4)
        hh  == ScanNumber(SkipSpaces(y.rest), 2)
        l3  == ScanLiteral(hh.rest, ":")
        mm  == ScanNumber(l3.rest, 2)
        l4  == ScanLiteral(mm.rest, ":")
        ss  == ScanNumber(l4.rest, 2)
        l5  == ScanLiteral(ss.rest, "Z")
    IN  IF /\ d.ok /\ l1.ok /\ m.ok /\ l2.ok /\ y.ok
           /\ hh.ok /\ l3.ok /\ mm.ok /\ l4.ok /\ ss.ok /\ l5.ok
           /\ l5.rest = <<>>
        THEN <<[year |-> y.value, month |-> m.value, day |-> d.value]>>
        ELSE <<>>

\* NaiveDateTime::parse_from_str(text, "%d.%m.%Y %H:%M:%SZ"):
\* Some([year, month, day]) when the text parses to a real date-time, else None
\* (the time of day is whatever MidnightSuffix says, so it is not kept)
ParseDateTime(text) ==
    LET d   == ScanNumber(text, 2)
        l1  == ScanLiteral(d.rest, ".")
        m   == ScanNumber(l1.rest, 2)
        l2  == ScanLiteral(m.rest, ".")
        y   == ScanNumber(l2.rest, 4)
        hh  == ScanNumber(SkipSpaces(y.rest), 2)
        l3  == ScanLiteral(hh.rest, ":")
        mm  == ScanNumber(l3.rest, 2)
        l4  == ScanLiteral(mm.rest, ":")
        ss  == ScanNumber(l4.rest, 2)
        l5  == ScanLiteral(ss.rest, "Z")
    IN  IF /\ d.ok /\ l1.ok /\ m.ok /\ l2.ok /\ y.ok
           /\ hh.ok /\ l3.ok /\ mm.ok /\ l4.ok /\ ss.ok /\ l5.ok
           /\ l5.rest = <<>>
           /\ IsRealDate(y.value, m.value, d.value)
           /\ hh.value <= 23 /\ mm.value <= 59 /\ ss.value <= 59
        THEN <<[year |-> y.value, month |-> m.value, day |-> d.value]>>
        ELSE <<>>

Pad2(n) == <<DigitChars[(n \div 10) + 1], DigitChars[(n % 10) + 1]>>

Pad4(n) == Pad2(n \div 100) \o Pad2(n % 100)

\* mutant of FormatDate: the month is written first
FormatDateMonthFirst(date) ==
    Pad2(date.month) \o <<".">> \o Pad2(date.day) \o <<".">> \o Pad4(date.year)

\* DateTime::format("%d.%m.%Y")
FormatDate(date) == Pad2(date.day) \o <<".">> \o Pad2(date.month) \o <<".">> \o Pad4(date.year)

\* mutant of DateToSql: the text is written day first
DateToSqlDayFirst(date) ==
    Pad2(date.day) \o <<"-">> \o Pad2(date.month) \o <<"-">> \o Pad4(date.year)

\* chrono's DateTime<Utc> as rusqlite binds it to the DueDate column: ISO text,
\* year first (the constant time of day "T00:00:00+00:00" is left out)
DateToSql(date) == Pad4(date.year) \o <<"-">> \o Pad2(date.month) \o <<"-">> \o Pad2(date.day)

\* a numeric field of exactly w digits: [ok, value, rest]
ScanFixed(s, w) ==
    LET k == LeadingDigits(s, w)
    IN  [ok |-> k = w, value |-> DigitsValue(SubSeq(s, 1, k)), rest |-> Drop(s, k)]

\* rusqlite reading the DueDate column back into a DateTime<Utc>: None when
\* the text is no ISO date
DateFromSql(text) ==
    LET y  == ScanFixed(text, 4)
        l1 == ScanLiteral(y.rest, "-")
        m  == ScanFixed(l1.rest, 2)
        l2 == ScanLiteral(m.rest, "-")
        d  == ScanFixed(l2.rest, 2)
    IN  IF /\ y.ok /\ l1.ok /\ m.ok /\ l2.ok /\ d.ok /\ d.rest = <<>>
           /\ IsRealDate(y.value, m.value, d.value)
        THEN <<[year |-> y.value, month |-> m.value, day |-> d.value]>>
        ELSE <<>>

\* DateTime ordering (Ord for DateTime<Utc>)
DateLess(a, b) ==
    \/ a.year < b.year
    \/ a.year = b.year /\ a.month < b.month
    \/ a.year = b.year /\ a.month = b.month /\ a.day < b.day

\* byte order of the characters the model uses (code point order)
CharOrder == <<" ", "-", ".", "0", "1", "2", "3", "4", "5", "6", "7", "8", "9",
               ":", "Z", "a", "b", "x", "é">>

CharCode(c) == CHOOSE i \in 1..Len(CharOrder) : CharOrder[i] = c

\* String ordering (Ord for String: lexicographic by byte)
StringLess(a, b) ==
    \E k \in 0..Len(a) :
        /\ k <= Len(b)
        /\ \A i \in 1..k : a[i] = b[i]
        /\ \/ k = Len(a) /\ k < Len(b)
           \/ k < Len(a) /\ k < Len(b) /\ CharCode(a[k + 1]) < CharCode(b[k + 1])

(***************************************************************************)
(* Program state                                                           *)
(***************************************************************************)
VARIABLES
    db_table,         \* the database file holds the table task_item
    db_rows,          \* table task_item: the rows, in rowid order
    db_seq,           \* AUTOINCREMENT: the highest Id handed out so far
    items,            \* TaskList.items: Vec<Task>
    selected,         \* TaskList.state.selected(): Option<usize>
    sorted_by,        \* TaskList.sorted_by: Option<SortedBy>
    dialog_active,    \* TaskEditDialogState.dialog_active
    task_id,          \* TaskEditDialogState.task_id: Option<i32>
    content,          \* TaskEditDialogState.content: Option<TaskEditDialogContent>
    error_message,    \* TaskEditDialogState.error_message: Option<String>
    cursor_position,  \* TaskEditDialogState.cursor_position: Option<(usize, usize)>
    pc,               \* main: "start" (App::new not yet called), "running"
                      \* (in run_app), "quit" (returned) or "panicked"
    last,             \* history: the key event handled last, the store and
                      \* list as they were when it arrived, and the items as
                      \* they were when the handler called the store
    trail             \* history: the indices selected by the next() calls made
                      \* in a row since nothing was selected

store_vars  == <<db_table, db_rows, db_seq>>
list_vars   == <<items, selected, sorted_by>>
dialog_vars == <<dialog_active, task_id, content, error_message, cursor_position>>
vars == <<db_table, db_rows, db_seq, items, selected, sorted_by, dialog_active, task_id,
          content, error_message, cursor_position, pc, last, trail>>

SortKeys == {"ByDueDate", "ByName", "ByPriority"}

\* the three validation messages of save_task
DateError  == "Date should be in format dd.mm.yyyy"
TitleError == "Title cannot be empty"
DescriptionError == "Description cannot be empty"

(***************************************************************************)
(* History                                                                 *)
(***************************************************************************)
Snapshot(op, arg) ==
    [op |-> op, arg |-> arg, db_table |-> db_table, db_rows |-> db_rows,
     db_seq |-> db_seq, items |-> items, selected |-> selected,
     sorted_by |-> sorted_by, at_write |-> items]

\* the event op(arg) has been handled; memory is the in-memory collection as
\* it stood when the handler called the store
HandledWith(op, arg, memory) ==
    /\ last' = [Snapshot(op, arg) EXCEPT !.at_write = memory]
    /\ trail' = IF op = "next" /\ (selected = <<>> \/ trail # <<>>) /\ Len(trail) <= Len(items)
                THEN Append(trail, selected'[1])
                ELSE <<>>

\* the event op(arg) has been handled by a handler that calls the store, if
\* at all, before it changes the in-memory collection
Handled(op, arg) == HandledWith(op, arg, items)

(***************************************************************************)
(* Storage (storage.rs)                                                    *)
(***************************************************************************)
\* the column values insert_task / update_task bind for a task
TaskToRow(task, id) ==
    [Id |-> id, Title |-> task.title, Description |-> task.description,
     DueDate |-> DateToSql(task.due_date), PriorityLevel |-> task.priority,
     Completed |-> IF task.completed THEN 1 ELSE 0]

\* the row -> Task closure of get_all_tasks; None when a column does not convert
RowToTask(row) ==
    LET date == DateFromSql(row.DueDate)
    IN  IF date = <<>> THEN <<>>
        ELSE <<[id |-> <<row.Id>>, title |-> row.Title, description |-> row.Description,
                due_date |-> date[1], priority |-> row.PriorityLevel,
                completed |-> row.Completed # 0]>>

RECURSIVE get_all_tasks_until_malformed(_)
\* mutant of get_all_tasks: the read ends at the first row that fails to convert
get_all_tasks_until_malformed(rows) ==
    IF rows = <<>> \/ RowToTask(Head(rows)) = <<>> THEN <<>>
    ELSE RowToTask(Head(rows)) \o get_all_tasks_until_malformed(Tail(rows))

RECURSIVE get_all_tasks(_)
\* SELECT * FROM task_item, rows that fail to convert are dropped
get_all_tasks(rows) ==
    IF rows = <<>> THEN <<>>
    ELSE RowToTask(Head(rows)) \o get_all_tasks(Tail(rows))

\* INSERT: the table after the insert (Id is db_seq + 1)
insert_task(rows, seq, task) == Append(rows, TaskToRow(task, seq + 1))

\* mutant of update_task: the WHERE clause is missing
update_task_every_row(rows, task) ==
    [i \in 1..Len(rows) |-> TaskToRow(task, rows[i].Id)]

\* UPDATE ... WHERE Id = task.id: the table after the update
update_task(rows, task) ==
    [i \in 1..Len(rows) |->
        IF task.id = <<rows[i].Id>> THEN TaskToRow(task, rows[i].Id) ELSE rows[i]]

\* mutant of delete_task: the comparison is <= instead of =
delete_task_and_later(rows, id) ==
    LET Keep(r) == r.Id < id
    IN  SelectSeq(rows, Keep)

\* DELETE ... WHERE Id = id: the table after the delete
delete_task(rows, id) ==
    LET Keep(r) == r.Id # id
    IN  SelectSeq(rows, Keep)

(***************************************************************************)
(* TaskList (task_list.rs)                                                 *)
(***************************************************************************)
\* Vec::sort_by: stable, ascending by Less
StableSort(s, Less(_, _)) ==
    LET n == Len(s)
        Rank(i) == Cardinality({j \in 1..n :
                        Less(s[j], s[i]) \/ (~Less(s[i], s[j]) /\ j < i)}) + 1
    IN  [p \in 1..n |-> s[CHOOSE i \in 1..n : Rank(i) = p]]

\* Vec::reverse
Reverse(s) == [i \in 1..Len(s) |-> s[Len(s) + 1 - i]]

ByNameLess(a, b) == StringLess(a.title, b.title)
ByPriorityLess(a, b) == a.priority < b.priority
ByDueDateLess(a, b) == DateLess(a.due_date, b.due_date)

\* mutant of SortedItems: the same key sorts again instead of reversing
SortedItemsAlwaysSorts(its, current, key) ==
    IF key = "ByName" THEN StableSort(its, ByNameLess)
    ELSE IF key = "ByPriority" THEN StableSort(its, ByPriorityLess)
    ELSE StableSort(its, ByDueDateLess)

\* mutant of SortedItems: the sort is ascending but not stable (equal keys
\* come out in the opposite of their previous order)
SortedItemsFromBack(its, current, key) ==
    IF current = <<key>> THEN Reverse(its)
    ELSE IF key = "ByName" THEN StableSort(Reverse(its), ByNameLess)
    ELSE IF key = "ByPriority" THEN StableSort(Reverse(its), ByPriorityLess)
    ELSE StableSort(Reverse(its), ByDueDateLess)

\* set_sort: the items after the call
SortedItems(its, current, key) ==
    IF current = <<key>> THEN Reverse(its)
    ELSE IF key = "ByName" THEN StableSort(its, ByNameLess)
    ELSE IF key = "ByPriority" THEN StableSort(its, ByPriorityLess)
    ELSE StableSort(its, ByDueDateLess)

set_sort(key) ==
    /\ items' = SortedItems(items, sorted_by, key)
    /\ sorted_by' = <<key>>
    /\ UNCHANGED selected

\* mutant of NextIndex: the wrap comes one step late
NextIndexLateWrap(sel, len) ==
    IF sel = <<>> THEN 0
    ELSE IF len = 0 \/ sel[1] >= len THEN 0 ELSE sel[1] + 1

\* next: the index selected after the call
NextIndex(sel, len) ==
    IF sel = <<>> THEN 0
    ELSE IF len = 0 \/ sel[1] >= len - 1 THEN 0 ELSE sel[1] + 1

\* previous: the index selected after the call
PreviousIndex(sel, len) ==
    IF sel = <<>> THEN 0
    ELSE IF len = 0 THEN 0
    ELSE IF sel[1] = 0 THEN len - 1 ELSE sel[1] - 1

\* get_selected / items.get_mut(i)
get_selected(its, sel) ==
    IF sel # <<>> /\ sel[1] < Len(its) THEN <<its[sel[1] + 1]>> ELSE <<>>

\* mutant of ToggledTask: the task is marked done instead of flipped
ToggledTaskDone(task) == [task EXCEPT !.completed = TRUE]

\* toggle_completed: the selected task with completed flipped
ToggledTask(task) == [task EXCEPT !.completed = ~task.completed]

\* delete_selected: the id handed to delete_task
DeletedId(task) == IF task.id = <<>> THEN -1 ELSE task.id[1]

(***************************************************************************)
(* TaskEditDialogState (task_edit.rs)                                      *)
(***************************************************************************)
\* TaskEditDialogContent::default()
DefaultContent == [title |-> <<>>, description |-> <<>>, due_date |-> <<>>, priority |-> 0]

\* content.as_ref().unwrap_or_default()
ContentOrDefault(c) == IF c = <<>> THEN DefaultContent ELSE c[1]

\* cursor_position.unwrap_or((0, 0)), as <<column, row>>
CursorOrOrigin(cp) == IF cp = <<>> THEN <<0, 0>> ELSE cp[1]

\* the placeholder of row 0 is "My task name"
PlaceholderLen == 12

\* get_task_edit_ui: the cursor the dialog is drawn with, as <<column, row>>
ShownCursor(cp) == IF cp = <<>> THEN <<PlaceholderLen, 0>> ELSE cp[1]

content_of_string_at_y_pos(c, y) ==
    IF y = 0 THEN ContentOrDefault(c).title
    ELSE IF y = 1 THEN ContentOrDefault(c).description
    ELSE IF y = 2 THEN ContentOrDefault(c).due_date
    ELSE IF y = 3 THEN IntToString(ContentOrDefault(c).priority)
    ELSE <<>>

Min(a, b) == IF a < b THEN a ELSE b

\* last row of the dialog (the literal 3 of move_cursor_down)
LastRow == 3

\* mutant of CursorDown: the column is kept as it is
CursorDownKeepsColumn(c, cp) ==
    LET cur == CursorOrOrigin(cp)
    IN  <<<<cur[1], Min(cur[2] + 1, LastRow)>>>>

\* the cursor after move_cursor_down
CursorDown(c, cp) ==
    LET cur == CursorOrOrigin(cp)
        future_y_position == Min(cur[2] + 1, LastRow)
    IN  <<<<Min(cur[1], ByteLen(content_of_string_at_y_pos(c, future_y_position))),
            future_y_position>>>>

\* mutant of CursorUp: the column is clamped to the row above
CursorUpClamped(c, cp) ==
    LET cur == CursorOrOrigin(cp)
    IN  IF cur[2] > 0
        THEN <<<<Min(cur[1], ByteLen(content_of_string_at_y_pos(c, cur[2] - 1))),
                 cur[2] - 1>>>>
        ELSE cp

\* the cursor after move_cursor_up
CursorUp(c, cp) ==
    LET cur == CursorOrOrigin(cp)
    IN  IF cur[2] > 0 THEN <<<<cur[1], cur[2] - 1>>>> ELSE cp

\* the cursor after move_cursor_left
CursorLeft(c, cp) ==
    LET cur == CursorOrOrigin(cp)
    IN  IF cur[1] > 0 THEN <<<<cur[1] - 1, cur[2]>>>> ELSE cp

\* the cursor after move_cursor_right
CursorRight(c, cp) ==
    LET cur == CursorOrOrigin(cp)
    IN  <<<<Min(cur[1] + 1, ByteLen(content_of_string_at_y_pos(c, cur[2]))), cur[2]>>>>

\* the text buffer of row y (0..2) replaced by s
WithBuffer(rec, y, s) ==
    IF y = 0 THEN [rec EXCEPT !.title = s]
    ELSE IF y = 1 THEN [rec EXCEPT !.description = s]
    ELSE [rec EXCEPT !.due_date = s]

\* delete_char: the byte index handed to String::remove
DeleteIndex(c, cp) ==
    LET cur == CursorOrOrigin(cp)
    IN  IF cur[1] >= ByteLen(content_of_string_at_y_pos(c, cur[2]))
        THEN cur[1] - 1 ELSE cur[1]

\* input: the cursor after the empty-buffer reset at the top of the function
InputCursor(c, cp) ==
    LET cur == CursorOrOrigin(cp)
    IN  IF ByteLen(content_of_string_at_y_pos(c, cur[2])) = 0
        THEN <<<<0, cur[2]>>>> ELSE cp

\* mutant of InputPriority: '0' is not among the accepted keys
InputPriorityFromOne(priority, to_insert) ==
    IF to_insert \in {"1", "2"} THEN DigitValue(to_insert) ELSE priority

\* input on row 3: the priority after the key
InputPriority(priority, to_insert) ==
    IF to_insert \in {"0", "1", "2"} THEN DigitValue(to_insert) ELSE priority

(***************************************************************************)
(* Initial state: App::new on a database that holds the (empty) table      *)
(***************************************************************************)
Init ==
    /\ db_table = TRUE
    /\ db_rows = <<>>
    /\ db_seq = 0
    /\ items = get_all_tasks(db_rows)
    /\ selected = <<>>
    /\ sorted_by = <<>>
    /\ dialog_active = FALSE
    /\ task_id = <<>>
    /\ content = <<>>
    /\ error_message = <<>>
    /\ cursor_position = <<>>
    /\ pc = "running"
    /\ last = Snapshot("start", "")
    /\ trail = <<>>

(***************************************************************************)
(* Key events while the dialog is open (run_app, first match)              *)
(***************************************************************************)
InDialog == pc = "running" /\ dialog_active

\* KeyCode::Down
DialogDown ==
    /\ InDialog
    /\ cursor_position' = CursorDown(content, cursor_position)
    /\ Handled("move_cursor_down", "")
    /\ UNCHANGED <<store_vars, list_vars, dialog_active, task_id, content, error_message, pc>>

\* KeyCode::Up
DialogUp ==
    /\ InDialog
    /\ cursor_position' = CursorUp(content, cursor_position)
    /\ Handled("move_cursor_up", "")
    /\ UNCHANGED <<store_vars, list_vars, dialog_active, task_id, content, error_message, pc>>

\* KeyCode::Left
DialogLeft ==
    /\ InDialog
    /\ cursor_position' = CursorLeft(content, cursor_position)
    /\ Handled("move_cursor_left", "")
    /\ UNCHANGED <<store_vars, list_vars, dialog_active, task_id, content, error_message, pc>>

\* KeyCode::Right
DialogRight ==
    /\ InDialog
    /\ cursor_position' = CursorRight(content, cursor_position)
    /\ Handled("move_cursor_right", "")
    /\ UNCHANGED <<store_vars, list_vars, dialog_active, task_id, content, error_message, pc>>

\* KeyCode::Esc
DialogEsc ==
    /\ InDialog
    /\ dialog_active' = FALSE
    /\ Handled("cancel", "")
    /\ UNCHANGED <<store_vars, list_vars, task_id, content, error_message, cursor_position, pc>>

\* mutant of BuiltTask: an edited task is saved as done
BuiltTaskDone(c, id, date) ==
    [id |-> id, title |-> c.title, description |-> c.description,
     due_date |-> date, priority |-> c.priority, completed |-> id # <<>>]

\* the Task save_task builds once the three validations have passed
BuiltTask(c, id, date) ==
    [id |-> id, title |-> c.title, description |-> c.description,
     due_date |-> date, priority |-> c.priority, completed |-> FALSE]

\* mutant of ValidationError: the title is not checked
ValidationErrorNoTitle(c) ==
    IF ParseDateTime(c.due_date \o MidnightSuffix) = <<>> THEN <<DateError>>
    ELSE IF ByteLen(c.description) = 0 THEN <<DescriptionError>>
    ELSE <<>>

\* mutant of ValidationError: the description is not checked
ValidationErrorNoDescription(c) ==
    IF ParseDateTime(c.due_date \o MidnightSuffix) = <<>> THEN <<DateError>>
    ELSE IF ByteLen(c.title) = 0 THEN <<TitleError>>
    ELSE <<>>

\* mutant of ValidationError: the title is checked before the date
ValidationErrorTitleFirst(c) ==
    IF ByteLen(c.title) = 0 THEN <<TitleError>>
    ELSE IF ParseDateTime(c.due_date \o MidnightSuffix) = <<>> THEN <<DateError>>
    ELSE IF ByteLen(c.description) = 0 THEN <<DescriptionError>>
    ELSE <<>>

\* the message of the first validation of save_task that fails, None when all pass
ValidationError(c) ==
    IF ParseDateTime(c.due_date \o MidnightSuffix) = <<>> THEN <<DateError>>
    ELSE IF ByteLen(c.title) = 0 THEN <<TitleError>>
    ELSE IF ByteLen(c.description) = 0 THEN <<DescriptionError>>
    ELSE <<>>

\* save_task(storage)
save_task ==
    LET c == ContentOrDefault(content)
        failed == ValidationError(c)
        task == BuiltTask(c, task_id, ParseDateTime(c.due_date \o MidnightSuffix)[1])
    IN  IF failed # <<>>
        THEN /\ error_message' = failed
             /\ UNCHANGED <<store_vars, dialog_active>>
        ELSE /\ IF task_id # <<>>
                THEN /\ db_rows' = update_task(db_rows, task)
                     /\ UNCHANGED db_seq
                ELSE /\ db_seq < MaxId
                     /\ db_rows' = insert_task(db_rows, db_seq, task)
                     /\ db_seq' = db_seq + 1
             /\ UNCHANGED db_table
             /\ error_message' = <<>>
             /\ dialog_active' = FALSE

\* mutant of update_items: the reload drops the selection
update_items_unselecting ==
    /\ items' = get_all_tasks(db_rows')
    /\ selected' = <<>>
    /\ UNCHANGED sorted_by

\* update_items(): reload from the table as the handler leaves it; the
\* ListState and the sort key are not touched
update_items ==
    /\ items' = get_all_tasks(db_rows')
    /\ UNCHANGED <<selected, sorted_by>>

\* KeyCode::Enter: save_task, then update_items
DialogEnter ==
    /\ InDialog
    /\ save_task
    /\ update_items
    /\ Handled("save_task", "")
    /\ UNCHANGED <<task_id, content, cursor_position, pc>>

\* delete_char()
delete_char ==
    LET cur == CursorOrOrigin(cursor_position)
        idx == DeleteIndex(content, cursor_position)
        buffer == content_of_string_at_y_pos(content, cur[2])
    IN  IF cur[1] = 0 \/ content = <<>>
        THEN UNCHANGED <<content, cursor_position, pc>>
        ELSE IF cur[2] \in 0..2
        THEN IF RemovePanics(buffer, idx)
             THEN /\ pc' = "panicked"
                  /\ UNCHANGED <<content, cursor_position>>
             ELSE /\ content' = <<WithBuffer(content[1], cur[2], StringRemove(buffer, idx))>>
                  /\ cursor_position' = CursorLeft(content', cursor_position)
                  /\ UNCHANGED pc
        ELSE /\ cursor_position' = CursorLeft(content, cursor_position)
             /\ UNCHANGED <<content, pc>>

\* KeyCode::Backspace
DialogBackspace ==
    /\ InDialog
    /\ delete_char
    /\ Handled("delete_char", "")
    /\ UNCHANGED <<store_vars, list_vars, dialog_active, task_id, error_message>>

\* the longest buffer the exploration types into, per row
MaxLenOfRow(y) == IF y = 0 THEN MaxTitleLen ELSE IF y = 1 THEN MaxDescLen ELSE MaxDateLen

\* input(to_insert)
input(to_insert) ==
    LET reset == InputCursor(content, cursor_position)
        cur == CursorOrOrigin(reset)
        buffer == content_of_string_at_y_pos(content, cur[2])
    IN  IF content = <<>>
        THEN /\ cursor_position' = reset
             /\ UNCHANGED <<content, pc>>
        ELSE IF cur[2] \in 0..2
        THEN IF InsertPanics(buffer, cur[1])
             THEN /\ pc' = "panicked"
                  /\ cursor_position' = reset
                  /\ UNCHANGED content
             ELSE /\ ByteLen(buffer) + Width(to_insert) <= MaxLenOfRow(cur[2])
                  /\ content' = <<WithBuffer(content[1], cur[2],
                                             StringInsert(buffer, cur[1], to_insert))>>
                  /\ cursor_position' = CursorRight(content', reset)
                  /\ UNCHANGED pc
        ELSE /\ content' = IF cur[2] = 3
                           THEN <<[content[1] EXCEPT
                                     !.priority = InputPriority(@, to_insert)]>>
                           ELSE content
             /\ cursor_position' = CursorRight(content', reset)
             /\ UNCHANGED pc

\* KeyCode::Char(to_insert)
DialogChar(to_insert) ==
    /\ InDialog
    /\ input(to_insert)
    /\ Handled("input", to_insert)
    /\ UNCHANGED <<store_vars, list_vars, dialog_active, task_id, error_message>>

(***************************************************************************)
(* Key events while the dialog is closed (run_app, second match)           *)
(***************************************************************************)
\* mutant of InList: the list's keys are handled while the dialog is open too
InListAlways == pc = "running"

InList == pc = "running" /\ ~dialog_active

\* KeyCode::Char('q')
ListQuit ==
    /\ InList
    /\ pc' = "quit"
    /\ Handled("quit", "")
    /\ UNCHANGED <<store_vars, list_vars, dialog_vars>>

\* KeyCode::Char('x'): delete_selected()
ListDelete ==
    /\ InList
    /\ LET task == get_selected(items, selected)
       IN  db_rows' = IF task = <<>> THEN db_rows
                      ELSE delete_task(db_rows, DeletedId(task[1]))
    /\ update_items
    /\ Handled("delete_selected", "")
    /\ UNCHANGED <<db_table, db_seq, dialog_vars, pc>>

\* KeyCode::Left: unselect()
ListUnselect ==
    /\ InList
    /\ selected' = <<>>
    /\ Handled("unselect", "")
    /\ UNCHANGED <<store_vars, items, sorted_by, dialog_vars, pc>>

\* KeyCode::Down: next()
ListNext ==
    /\ InList
    /\ selected' = <<NextIndex(selected, Len(items))>>
    /\ Handled("next", "")
    /\ UNCHANGED <<store_vars, items, sorted_by, dialog_vars, pc>>

\* KeyCode::Up: previous()
ListPrevious ==
    /\ InList
    /\ selected' = <<PreviousIndex(selected, Len(items))>>
    /\ Handled("previous", "")
    /\ UNCHANGED <<store_vars, items, sorted_by, dialog_vars, pc>>

\* KeyCode::Char('a'): create_a_new_task()
ListCreate ==
    /\ InList
    /\ dialog_active' = TRUE
    /\ task_id' = <<>>
    /\ content' = <<DefaultContent>>
    /\ Handled("create_a_new_task", "")
    /\ UNCHANGED <<store_vars, list_vars, error_message, cursor_position, pc>>

\* mutant of EditContent: the dialog opens with the default priority
EditContentDefaultPriority(task) ==
    [title |-> task.title, description |-> task.description,
     due_date |-> FormatDate(task.due_date), priority |-> 0]

\* edit_task(task): the content the dialog opens with
EditContent(task) ==
    [title |-> task.title, description |-> task.description,
     due_date |-> FormatDate(task.due_date), priority |-> task.priority]

\* KeyCode::Char('e'): edit_task(selected task), nothing when none is selected
ListEdit ==
    /\ InList
    /\ LET task == get_selected(items, selected)
       IN  IF task = <<>>
           THEN UNCHANGED dialog_vars
           ELSE /\ dialog_active' = TRUE
                /\ task_id' = task[1].id
                /\ cursor_position' = <<<<0, 0>>>>
                /\ content' = <<EditContent(task[1])>>
                /\ UNCHANGED error_message
    /\ Handled("edit_task", "")
    /\ UNCHANGED <<store_vars, list_vars, pc>>

\* KeyCode::Char('d' | 'f' | 'g'): set_sort(key)
ListSort(key) ==
    /\ InList
    /\ set_sort(key)
    /\ Handled("set_sort", key)
    /\ UNCHANGED <<store_vars, dialog_vars, pc>>

\* mutant of ListToggle: update_task is called with a flipped copy and the
\* list is changed after it
ListToggleWriteFirst ==
    /\ InList
    /\ LET task == get_selected(items, selected)
       IN  IF task = <<>>
           THEN UNCHANGED <<items, db_rows>>
           ELSE /\ db_rows' = update_task(db_rows, ToggledTask(task[1]))
                /\ items' = [items EXCEPT ![selected[1] + 1] = ToggledTask(task[1])]
    /\ HandledWith("toggle_completed", "", items)
    /\ UNCHANGED <<db_table, db_seq, selected, sorted_by, dialog_vars, pc>>

\* KeyCode::Enter: toggle_completed()
ListToggle ==
    /\ InList
    /\ LET task == get_selected(items, selected)
       IN  IF task = <<>>
           THEN UNCHANGED <<items, db_rows>>
           ELSE /\ items' = [items EXCEPT ![selected[1] + 1] = ToggledTask(task[1])]
                /\ db_rows' = update_task(db_rows, ToggledTask(task[1]))
    \* the closure flips task.completed, then calls update_task
    /\ HandledWith("toggle_completed", "", items')
    /\ UNCHANGED <<db_table, db_seq, selected, sorted_by, dialog_vars, pc>>

(***************************************************************************)
(* Spec: a session on an empty database in which the user works in the     *)
(* dialog ('a' opens it; Esc and Enter leave it; 'q' ends the session)     *)
(***************************************************************************)
\* the characters the user types
Chars == {"a", "2", "é"}

\* the further keys the user types on the priority row only
PriorityKeys == {"0", "1", "5"}

\* KeyCode::Char(to_insert) with the cursor on the priority row
DialogPriorityKey(to_insert) ==
    /\ CursorOrOrigin(cursor_position)[2] = LastRow
    /\ DialogChar(to_insert)

Next ==
    \/ ListCreate
    \/ ListQuit
    \/ DialogDown
    \/ DialogUp
    \/ DialogLeft
    \/ DialogRight
    \/ DialogEsc
    \/ DialogEnter
    \/ DialogBackspace
    \/ \E c \in Chars : DialogChar(c)
    \/ \E c \in PriorityKeys : DialogPriorityKey(c)

Spec == Init /\ [][Next]_vars

(***************************************************************************)
(* SpecList: a session on a database earlier sessions have filled, in      *)
(* which the user works in the list                                        *)
(***************************************************************************)
Date(y, m, d) == [year |-> y, month |-> m, day |-> d]

\* tasks earlier sessions have saved (ids are given by the table)
TaskPool ==
    { [id |-> <<>>, title |-> <<"b">>, description |-> <<"a">>,
       due_date |-> Date(2024, 2, 29), priority |-> 1, completed |-> FALSE],
      [id |-> <<>>, title |-> <<"a">>, description |-> <<"b">>,
       due_date |-> Date(1, 1, 1), priority |-> 1, completed |-> TRUE],
      [id |-> <<>>, title |-> <<"a">>, description |-> <<"a">>,
       due_date |-> Date(2024, 2, 29), priority |-> 0, completed |-> FALSE] }

\* the tables of at most MaxRows rows that inserting tasks of pool one after
\* the other leaves
TablesOf(pool) ==
    UNION { { [i \in 1..n |-> TaskToRow(f[i], i)] : f \in [1..n -> pool] } : n \in 0..MaxRows }

StoredTables == TablesOf(TaskPool)

InitList ==
    /\ db_table = TRUE
    /\ db_rows \in StoredTables
    /\ db_seq = Len(db_rows)
    /\ items = get_all_tasks(db_rows)
    /\ selected = <<>>
    /\ sorted_by = <<>>
    /\ dialog_active = FALSE
    /\ task_id = <<>>
    /\ content = <<>>
    /\ error_message = <<>>
    /\ cursor_position = <<>>
    /\ pc = "running"
    /\ last = Snapshot("start", "")
    /\ trail = <<>>

NextList ==
    \/ ListQuit
    \/ ListDelete
    \/ ListUnselect
    \/ ListNext
    \/ ListPrevious
    \/ \E key \in SortKeys : ListSort(key)
    \/ ListToggle

SpecList == InitList /\ [][NextList]_vars

(***************************************************************************)
(* SpecCommit: the user has filled in the dialog (any of the buffers       *)
(* below, typed in a create or an edit dialog) and presses Enter or Esc,   *)
(* then goes on in the list                                                *)
(***************************************************************************)
TypedTitles == {<<>>, <<"a">>}

TypedDescriptions == {<<>>, <<"b">>}

\* "", "01.2024", "31.02.2024", "29.02.2023", "29.02.2024", "1.1.1"
TypedDates ==
    { <<>>,
      <<"0", "1", ".", "2", "0", "2", "4">>,
      <<"3", "1", ".", "0", "2", ".", "2", "0", "2", "4">>,
      <<"2", "9", ".", "0", "2", ".", "2", "0", "2", "3">>,
      <<"2", "9", ".", "0", "2", ".", "2", "0", "2", "4">>,
      <<"1", ".", "1", ".", "1">> }

TypedPriorities == {2}

\* the tasks already in the table: one open, one completed
CommitPool == { t \in TaskPool : t.priority = 1 }

TypedContents ==
    [title : TypedTitles, description : TypedDescriptions,
     due_date : TypedDates, priority : TypedPriorities]

InitCommit ==
    /\ db_table = TRUE
    /\ db_rows \in TablesOf(CommitPool)
    /\ db_seq = Len(db_rows)
    /\ items = get_all_tasks(db_rows)
    /\ sorted_by = <<>>
    /\ dialog_active = TRUE
    \* create_a_new_task, or edit_task on the selected task
    /\ \/ task_id = <<>> /\ selected = <<>>
       \/ \E i \in 1..Len(items) : task_id = items[i].id /\ selected = <<i - 1>>
    /\ content \in { <<c>> : c \in TypedContents }
    /\ error_message = <<>>
    /\ cursor_position = <<<<0, 0>>>>
    /\ pc = "running"
    /\ last = Snapshot("start", "")
    /\ trail = <<>>

NextCommit ==
    \/ DialogEnter
    \/ DialogEsc
    \/ ListNext
    \/ ListToggle
    \/ ListDelete
    \/ ListEdit
    \/ ListCreate

SpecCommit == InitCommit /\ [][NextCommit]_vars

(***************************************************************************)
(* SpecFail: as SpecCommit, on a database whose writes may fail (file      *)
(* locked by another process, disk full, read-only medium): execute()      *)
(* returns Err and the handler's .expect(...) panics                       *)
(***************************************************************************)
\* KeyCode::Enter in the dialog: the validations pass, update_task or
\* insert_task returns Err and save_task panics in expect()
DialogEnterFails ==
    /\ InDialog
    /\ ValidationError(ContentOrDefault(content)) = <<>>
    /\ pc' = "panicked"
    /\ Handled("save_task", "Err")
    /\ UNCHANGED <<store_vars, list_vars, dialog_vars>>

\* KeyCode::Enter in the list: the closure has flipped task.completed when
\* update_task returns Err and expect() panics
ListToggleFails ==
    /\ InList
    /\ LET task == get_selected(items, selected)
       IN  /\ task # <<>>
           /\ items' = [items EXCEPT ![selected[1] + 1] = ToggledTask(task[1])]
    /\ pc' = "panicked"
    /\ HandledWith("toggle_completed", "Err", items')
    /\ UNCHANGED <<store_vars, selected, sorted_by, dialog_vars>>

\* KeyCode::Char('x'): delete_task returns Err and expect() panics before
\* update_items is reached
ListDeleteFails ==
    /\ InList
    /\ get_selected(items, selected) # <<>>
    /\ pc' = "panicked"
    /\ Handled("delete_selected", "Err")
    /\ UNCHANGED <<store_vars, list_vars, dialog_vars>>

NextFail ==
    \/ NextCommit
    \/ DialogEnterFails
    \/ ListToggleFails
    \/ ListDeleteFails

SpecFail == InitCommit /\ [][NextFail]_vars

(***************************************************************************)
(* SpecMain: the program of main.rs from process start.  Its StatefulList  *)
(* has next() and previous() without the empty-list test of task_list.rs;  *)
(* the other list handlers are those above, line for line.                 *)
(***************************************************************************)
\* usize::MAX, taken at the width TLC computes with (2^31 - 1)
UsizeMax == 2147483647

\* self.items.len() - 1 in usize, wrapping (build without overflow checks)
LenMinusOne(len) == IF len = 0 THEN UsizeMax ELSE len - 1

\* StatefulList::next: the index selected after the call, wrapping build
MainNextIndex(sel, len) ==
    IF sel = <<>> THEN 0
    ELSE IF sel[1] >= LenMinusOne(len) THEN 0 ELSE sel[1] + 1

\* StatefulList::previous: the index selected after the call, wrapping build
MainPreviousIndex(sel, len) ==
    IF sel = <<>> THEN 0
    ELSE IF sel[1] = 0 THEN LenMinusOne(len) ELSE sel[1] - 1

\* the indices the exploration follows
IndexExplored(i) == i <= MaxIndex \/ i >= UsizeMax - MaxIndex

\* main(): Connection::open, then App::new, which loads the list;
\* create_table_if_not_exists is not called, and prepare() fails on a
\* database without the table, where expect() panics
MainStart ==
    /\ pc = "start"
    /\ IF db_table
       THEN /\ items' = get_all_tasks(db_rows)
            /\ pc' = "running"
       ELSE /\ pc' = "panicked"
            /\ UNCHANGED items
    /\ Handled("App::new", "")
    /\ UNCHANGED <<store_vars, selected, sorted_by, dialog_vars>>

\* KeyCode::Down: StatefulList::next().  On an empty list with a selection
\* len() - 1 overflows: a build with overflow checks panics, one without wraps
MainNext ==
    /\ InList
    /\ \/ /\ selected # <<>> /\ Len(items) = 0
          /\ pc' = "panicked"
          /\ UNCHANGED selected
       \/ /\ IndexExplored(MainNextIndex(selected, Len(items)))
          /\ selected' = <<MainNextIndex(selected, Len(items))>>
          /\ UNCHANGED pc
    /\ Handled("next", "")
    /\ UNCHANGED <<store_vars, items, sorted_by, dialog_vars>>

\* KeyCode::Up: StatefulList::previous().  On an empty list with index 0
\* selected len() - 1 overflows, as in next()
MainPrevious ==
    /\ InList
    /\ \/ /\ selected = <<0>> /\ Len(items) = 0
          /\ pc' = "panicked"
          /\ UNCHANGED selected
       \/ /\ IndexExplored(MainPreviousIndex(selected, Len(items)))
          /\ selected' = <<MainPreviousIndex(selected, Len(items))>>
          /\ UNCHANGED pc
    /\ Handled("previous", "")
    /\ UNCHANGED <<store_vars, items, sorted_by, dialog_vars>>

\* the process has been started on a database file that holds the table
\* with rows of earlier sessions, or no table (Connection::open creates
\* the file when there is none)
InitMain ==
    /\ db_table \in BOOLEAN
    /\ db_rows \in (IF db_table THEN StoredTables ELSE {<<>>})
    /\ db_seq = Len(db_rows)
    /\ items = <<>>
    /\ selected = <<>>
    /\ sorted_by = <<>>
    /\ dialog_active = FALSE
    /\ task_id = <<>>
    /\ content = <<>>
    /\ error_message = <<>>
    /\ cursor_position = <<>>
    /\ pc = "start"
    /\ last = Snapshot("start", "")
    /\ trail = <<>>

NextMain ==
    \/ MainStart
    \/ MainNext
    \/ MainPrevious
    \/ ListQuit
    \/ ListDelete
    \/ ListUnselect
    \/ \E key \in SortKeys : ListSort(key)
    \/ ListToggle

SpecMain == InitMain /\ [][NextMain]_vars

(***************************************************************************)
(* SpecLoad: the program is started on a table that other tools have       *)
(* written to as well, so that some rows hold a DueDate that is no date;   *)
(* the user then works in the list.  The SELECT may also fail while it is  *)
(* executed (database locked by another process, I/O error).               *)
(***************************************************************************)
\* DueDate texts that convert to no DateTime<Utc>: "x", "2023-02-29"
MalformedDates ==
    { <<"x">>, <<"2", "0", "2", "3", "-", "0", "2", "-", "2", "9">> }

\* the rows a table may hold, but for their Id: rows of saved tasks, and rows
\* with a malformed DueDate
RowPool ==
    { TaskToRow(t, 0) : t \in CommitPool }
    \cup { [TaskToRow(t, 0) EXCEPT !.DueDate = d] :
              t \in { u \in CommitPool : ~u.completed }, d \in MalformedDates }

\* the tables of at most MaxRows + 1 such rows
MixedTables ==
    UNION { { [i \in 1..n |-> [f[i] EXCEPT !.Id = i]] : f \in [1..n -> RowPool] } :
              n \in 0..(MaxRows + 1) }

\* App::new: TaskList::with_items_from_storage loads the list; prepare()
\* fails on a database without the table, where expect() panics
AppNew ==
    /\ pc = "start"
    /\ IF db_table
       THEN /\ items' = get_all_tasks(db_rows)
            /\ pc' = "running"
       ELSE /\ pc' = "panicked"
            /\ UNCHANGED items
    /\ Handled("App::new", "")
    /\ UNCHANGED <<store_vars, selected, sorted_by, dialog_vars>>

\* App::new while the SELECT fails: query_map returning Err gives Vec::new(),
\* and an Err of a later step is one more item filter_map drops, after which
\* the iteration ends; k rows had been read by then
AppNewReadFails ==
    /\ pc = "start"
    /\ db_table
    /\ \E k \in 0..Len(db_rows) : items' = get_all_tasks(SubSeq(db_rows, 1, k))
    /\ pc' = "running"
    /\ Handled("App::new", "Err")
    /\ UNCHANGED <<store_vars, selected, sorted_by, dialog_vars>>

\* KeyCode::Char('x') while the SELECT of update_items fails: the row is
\* deleted, and the list becomes the k rows read before the failure
ListDeleteReadFails ==
    /\ InList
    /\ LET task == get_selected(items, selected)
       IN  db_rows' = IF task = <<>> THEN db_rows
                      ELSE delete_task(db_rows, DeletedId(task[1]))
    /\ \E k \in 0..Len(db_rows') : items' = get_all_tasks(SubSeq(db_rows', 1, k))
    /\ Handled("delete_selected", "Err")
    /\ UNCHANGED <<db_table, db_seq, selected, sorted_by, dialog_vars, pc>>

InitLoad ==
    /\ db_table \in BOOLEAN
    /\ db_rows \in (IF db_table THEN MixedTables ELSE {<<>>})
    /\ db_seq = Len(db_rows)
    /\ items = <<>>
    /\ selected = <<>>
    /\ sorted_by = <<>>
    /\ dialog_active = FALSE
    /\ task_id = <<>>
    /\ content = <<>>
    /\ error_message = <<>>
    /\ cursor_position = <<>>
    /\ pc = "start"
    /\ last = Snapshot("start", "")
    /\ trail = <<>>

NextLoad ==
    \/ AppNew
    \/ AppNewReadFails
    \/ ListNext
    \/ ListDelete
    \/ ListDeleteReadFails
    \/ ListToggle
    \/ ListQuit

SpecLoad == InitLoad /\ [][NextLoad]_vars

(***************************************************************************)
(* Properties                                                              *)
(***************************************************************************)
\* the dates a text denotes when read as day.month.year: one or two digits,
\* a dot, one or two digits, a dot, one to four digits, naming a real day
DatesDenoted(text) ==
    { [year |-> DigitsValue(SubSeq(text, a + b + 3, a + b + c + 2)),
       month |-> DigitsValue(SubSeq(text, a + 2, a + b + 1)),
       day |-> DigitsValue(SubSeq(text, 1, a))] :
        <<a, b, c>> \in { w \in (1..2) \X (1..2) \X (1..4) :
            /\ Len(text) = w[1] + w[2] + w[3] + 2
            /\ text[w[1] + 1] = "." /\ text[w[1] + w[2] + 2] = "."
            /\ \A i \in (1..Len(text)) \ {w[1] + 1, w[1] + w[2] + 2} : IsDigit(text[i])
            /\ IsRealDate(DigitsValue(SubSeq(text, w[1] + w[2] + 3, Len(text))),
                          DigitsValue(SubSeq(text, w[1] + 2, w[1] + w[2] + 1)),
                          DigitsValue(SubSeq(text, 1, w[1]))) } }

DenotesDate(text) == DatesDenoted(text) # {}

\* Enter was the last key handled, in the dialog
Committed == last.op = "save_task"

\* the table and its Id counter are as they were before the last event
StoreUntouched == db_rows = last.db_rows /\ db_seq = last.db_seq

\* C1: while the dialog is open the cursor lies inside the buffer of its row:
\* 0 <= column <= length(fields[row]) and 0 <= row <= 3
C1_CursorInvariant ==
    dialog_active =>
        LET cur == CursorOrOrigin(cursor_position)
        IN  /\ cur[2] \in 0..3
            /\ cur[1] >= 0
            /\ cur[1] <= ByteLen(content_of_string_at_y_pos(content, cur[2]))

\* C2: set_sort(K) while K is already the sort key of a non-empty list leaves
\* exactly the reverse of the list as it was, and K stays the key
C2_SortToggle ==
    (last.op = "set_sort" /\ last.sorted_by = <<last.arg>> /\ last.items # <<>>) =>
        /\ Len(items) = Len(last.items)
        /\ \A i \in 1..Len(items) : items[i] = last.items[Len(items) + 1 - i]
        /\ sorted_by = <<last.arg>>

\* C2 witness: ByName was pressed on a list already sorted by name, and the
\* two tasks now stand in descending order of title
C2_Witness ==
    /\ last.op = "set_sort" /\ last.arg = "ByName" /\ last.sorted_by = <<"ByName">>
    /\ Len(items) = 2
    /\ StringLess(items[2].title, items[1].title)

\* C3 as claimed: from no selection, next() applied len times selects the
\* index that next() applied once selects
C3_WrapAfterLen ==
    (Len(items) >= 1 /\ Len(trail) >= Len(items)) => trail[Len(items)] = trail[1]

\* C3 amended: from no selection, next() applied len + 1 times selects the
\* index that next() applied once selects
C3_WrapAfterLenPlusOne ==
    (Len(items) >= 1 /\ Len(trail) >= Len(items) + 1) => trail[Len(items) + 1] = trail[1]

\* C3 witness: three next() calls in a row, from nothing selected, on two tasks
C3_Witness ==
    /\ Len(items) = 2 /\ Len(trail) = 3
    /\ last.op = "next" /\ selected = <<0>>

\* C4: Enter on a due-date buffer that denotes no real day.month.year date
\* leaves the dialog open with the date message and writes nothing
C4_BadDateRejected ==
    (Committed /\ ~DenotesDate(content[1].due_date)) =>
        /\ dialog_active
        /\ error_message = <<"Date should be in format dd.mm.yyyy">>
        /\ StoreUntouched

\* C4 witness: Enter on "31.02.2024" with title and description filled in
C4_Witness ==
    /\ Committed
    /\ content[1].due_date = <<"3", "1", ".", "0", "2", ".", "2", "0", "2", "4">>
    /\ content[1].title # <<>> /\ content[1].description # <<>>
    /\ dialog_active

\* C5: Enter on an empty title buffer leaves the dialog open and writes
\* nothing, whatever the other fields hold, in create and in edit mode
C5_EmptyTitleRejected ==
    (Committed /\ content[1].title = <<>>) => (dialog_active /\ StoreUntouched)

\* C5 witness: Enter in an edit dialog whose title was emptied, the date and
\* the description being fine
C5_Witness ==
    /\ Committed /\ task_id # <<>>
    /\ content[1].title = <<>> /\ content[1].description # <<>>
    /\ DenotesDate(content[1].due_date)
    /\ dialog_active

\* C6: the message Enter sets is that of the first check that fails, in the
\* order due date, title, description
C6_FirstFailureWins ==
    Committed =>
        LET c == content[1]
        IN  /\ ~DenotesDate(c.due_date) =>
                error_message = <<"Date should be in format dd.mm.yyyy">>
            /\ (DenotesDate(c.due_date) /\ c.title = <<>>) =>
                error_message = <<"Title cannot be empty">>
            /\ (DenotesDate(c.due_date) /\ c.title # <<>> /\ c.description = <<>>) =>
                error_message = <<"Description cannot be empty">>

\* C6 witness: Enter on a valid date with title and description both empty
C6_Witness ==
    /\ Committed
    /\ DenotesDate(content[1].due_date)
    /\ content[1].title = <<>> /\ content[1].description = <<>>
    /\ error_message = <<"Title cannot be empty">>

\* the buffers pass the three validations
BuffersValid ==
    /\ DenotesDate(content[1].due_date)
    /\ content[1].title # <<>>
    /\ content[1].description # <<>>

\* row carries the title, description and priority of the buffers
RowHoldsBuffers(row) ==
    /\ row.Title = content[1].title
    /\ row.Description = content[1].description
    /\ row.PriorityLevel = content[1].priority

\* C7: Enter on buffers that pass the validations closes the dialog, clears
\* the error and writes once: in edit mode the row of task_id is updated and
\* no other row nor the row count changes, in create mode one row is added
C7_OneWrite ==
    (Committed /\ BuffersValid) =>
        /\ ~dialog_active
        /\ error_message = <<>>
        /\ IF task_id # <<>>
           THEN /\ Len(db_rows) = Len(last.db_rows)
                /\ \A i \in 1..Len(db_rows) :
                      IF last.db_rows[i].Id = task_id[1]
                      THEN db_rows[i].Id = task_id[1] /\ RowHoldsBuffers(db_rows[i])
                      ELSE db_rows[i] = last.db_rows[i]
                /\ \E i \in 1..Len(db_rows) : last.db_rows[i].Id = task_id[1]
           ELSE /\ Len(db_rows) = Len(last.db_rows) + 1
                /\ \A i \in 1..Len(last.db_rows) : db_rows[i] = last.db_rows[i]
                /\ RowHoldsBuffers(db_rows[Len(db_rows)])

\* C7 witness: an edit was saved into a table of two rows and changed one
C7_Witness ==
    /\ Committed /\ BuffersValid /\ task_id # <<>>
    /\ Len(db_rows) = 2
    /\ db_rows # last.db_rows
    /\ last.db_rows[1] # last.db_rows[2]

\* the positions of the rows the last Enter wrote
WrittenRows ==
    { i \in 1..Len(db_rows) :
        \/ i > Len(last.db_rows)
        \/ task_id # <<>> /\ db_rows[i].Id = task_id[1] }

\* C8: every task a successful Enter writes is uncompleted, in the table
\* and in the reloaded list, also when the edited task was completed
C8_SavedUncompleted ==
    (Committed /\ ~dialog_active) =>
        /\ WrittenRows # {}
        /\ \A i \in WrittenRows :
              /\ db_rows[i].Completed = 0
              /\ \E j \in 1..Len(items) :
                    items[j].id = <<db_rows[i].Id>> /\ ~items[j].completed

\* C8 witness: the task saved was an existing, completed one
C8_Witness ==
    /\ Committed /\ ~dialog_active /\ task_id # <<>>
    /\ \E i \in 1..Len(last.db_rows) :
          last.db_rows[i].Id = task_id[1] /\ last.db_rows[i].Completed = 1

\* C9: no task in the table and no task in the list has an empty title or
\* an empty description
C9_NoEmptyText ==
    /\ \A i \in 1..Len(db_rows) : db_rows[i].Title # <<>> /\ db_rows[i].Description # <<>>
    /\ \A i \in 1..Len(items) : items[i].title # <<>> /\ items[i].description # <<>>

\* C9 witness: the table holds only tasks the dialog saved (priority 2), the
\* list shows them, and Enter has just been refused on a dialog whose title
\* and description buffers are empty
C9_Witness ==
    /\ Committed /\ dialog_active
    /\ content[1].title = <<>> /\ content[1].description = <<>>
    /\ db_rows # <<>> /\ Len(items) = Len(db_rows)
    /\ \A i \in 1..Len(db_rows) : db_rows[i].PriorityLevel = 2

\* C10: after a create dialog is saved the reloaded list holds a task equal
\* to the one built from the buffers (uncompleted), under an id no other
\* row has or had
C10_InsertRoundTrip ==
    (Committed /\ ~dialog_active /\ task_id = <<>>) =>
        \E j \in 1..Len(items) :
            /\ items[j].title = content[1].title
            /\ items[j].description = content[1].description
            /\ items[j].due_date \in DatesDenoted(content[1].due_date)
            /\ items[j].priority = content[1].priority
            /\ items[j].completed = FALSE
            /\ items[j].id # <<>>
            /\ \A i \in 1..Len(last.db_rows) : <<last.db_rows[i].Id>> # items[j].id
            /\ \A k \in (1..Len(items)) \ {j} : items[k].id # items[j].id

\* C10 witness: "29.02.2024" was saved from a create dialog into a table
\* that already held a row
C10_Witness ==
    /\ Committed /\ ~dialog_active /\ task_id = <<>>
    /\ content[1].due_date = <<"2", "9", ".", "0", "2", ".", "2", "0", "2", "4">>
    /\ last.db_rows # <<>>
    /\ Len(items) = Len(last.items) + 1

\* the order set_sort(key) sorts by
KeyOrder(key, a, b) ==
    IF key = "ByName" THEN StringLess(a.title, b.title)
    ELSE IF key = "ByPriority" THEN a.priority < b.priority
    ELSE DateLess(a.due_date, b.due_date)

\* the place of the task with t's id in the list as it was before the event
PlaceBefore(t) == CHOOSE i \in 1..Len(last.items) : last.items[i].id = t.id

\* C11: set_sort(K) while the sort key is none or another key leaves the
\* tasks it found, in ascending order of K, tasks with equal K in the order
\* they had before, and K becomes the sort key
C11_StableSort ==
    (last.op = "set_sort" /\ last.sorted_by # <<last.arg>>) =>
        /\ sorted_by = <<last.arg>>
        /\ Len(items) = Len(last.items)
        /\ \A i \in 1..Len(last.items) : \E j \in 1..Len(items) : items[j] = last.items[i]
        /\ \A i, j \in 1..Len(items) :
              i < j =>
                /\ ~KeyOrder(last.arg, items[j], items[i])
                /\ ~KeyOrder(last.arg, items[i], items[j]) =>
                      PlaceBefore(items[i]) < PlaceBefore(items[j])

\* C11 witness: a list sorted by name and then toggled to descending titles is
\* sorted by priority; the two tasks have the same priority and stay as they were
C11_Witness ==
    /\ last.op = "set_sort" /\ last.arg = "ByPriority" /\ last.sorted_by = <<"ByName">>
    /\ Len(items) = 2
    /\ items[1].priority = items[2].priority
    /\ StringLess(items[2].title, items[1].title)

\* a task was selected when the last event arrived
HadSelected == last.selected # <<>> /\ last.selected[1] < Len(last.items)

\* C14: toggle_completed() with a task selected flips completed of that task
\* in the list and in the row of its id and changes no other task, no other
\* row, nor order, selection or sort key; with none selected nothing changes
C14_ToggleFlipsOne ==
    last.op = "toggle_completed" =>
        /\ selected = last.selected
        /\ sorted_by = last.sorted_by
        /\ Len(items) = Len(last.items)
        /\ Len(db_rows) = Len(last.db_rows)
        /\ IF HadSelected
           THEN LET k == last.selected[1] + 1
                    id == last.items[k].id[1]
                IN  /\ items[k] = [last.items[k] EXCEPT !.completed = ~@]
                    /\ \A i \in (1..Len(items)) \ {k} : items[i] = last.items[i]
                    /\ \E r \in 1..Len(db_rows) : last.db_rows[r].Id = id
                    /\ \A r \in 1..Len(db_rows) :
                          IF last.db_rows[r].Id = id
                          THEN db_rows[r] = [last.db_rows[r] EXCEPT !.Completed = 1 - @]
                          ELSE db_rows[r] = last.db_rows[r]
           ELSE items = last.items /\ db_rows = last.db_rows

\* C14 witness: in a sorted list of two a completed task was toggled open; it
\* stands second in the list and first in the table
C14_Witness ==
    /\ last.op = "toggle_completed" /\ last.selected = <<1>> /\ last.sorted_by # <<>>
    /\ Len(items) = 2
    /\ last.items[2].completed /\ ~items[2].completed
    /\ <<db_rows[1].Id>> = items[2].id

\* C15: delete_selected() with a task selected removes the row of its id and
\* no other row and leaves the list equal to what the table holds; with none
\* selected, or for a task without id, no row goes; the session runs on
C15_DeleteSelectedRow ==
    last.op = "delete_selected" =>
        /\ pc = "running"
        /\ items = get_all_tasks(db_rows)
        /\ delete_task(last.db_rows, DeletedId([id |-> <<>>])) = last.db_rows
        /\ IF HadSelected
           THEN LET id == last.items[last.selected[1] + 1].id[1]
                    Other(r) == r.Id # id
                IN  /\ db_rows = SelectSeq(last.db_rows, Other)
                    /\ Len(db_rows) = Len(last.db_rows) - 1
           ELSE db_rows = last.db_rows

\* C15 witness: of two rows the second was deleted, selected as the first
\* task of a sorted list
C15_Witness ==
    /\ last.op = "delete_selected" /\ last.selected = <<0>>
    /\ Len(last.db_rows) = 2 /\ Len(db_rows) = 1
    /\ db_rows[1] = last.db_rows[1]

\* C16 as claimed: after delete_selected() nothing is selected
C16_DeleteClearsSelection ==
    last.op = "delete_selected" => selected = <<>>

\* C16 amended: delete_selected() leaves the selection as it was, and a
\* toggle_completed(), delete_selected() or edit_task that follows acts on
\* the task now at the selected index
C16_DeleteKeepsSelection ==
    [][ /\ last'.op = "delete_selected" => selected' = selected
        /\ (last.op = "delete_selected" /\ selected # <<>> /\ selected[1] < Len(items)) =>
               LET task == items[selected[1] + 1]
               IN  /\ last'.op = "toggle_completed" =>
                         /\ items'[selected[1] + 1].completed # task.completed
                         /\ db_rows' # db_rows
                   /\ last'.op = "delete_selected" =>
                         /\ Len(db_rows') = Len(db_rows) - 1
                         /\ \A r \in 1..Len(db_rows') : <<db_rows'[r].Id>> # task.id
                   /\ last'.op = "edit_task" =>
                         /\ dialog_active'
                         /\ task_id' = task.id
                         /\ content'[1].title = task.title ]_vars

\* C16 witness: a task was deleted and another now stands at the selected index
C16_Witness ==
    /\ last.op = "delete_selected"
    /\ Len(items) < Len(last.items)
    /\ selected # <<>> /\ selected[1] < Len(items)

\* the last event was a toggle or a delete that called the store
WroteThrough ==
    /\ last.op \in {"toggle_completed", "delete_selected"}
    /\ HadSelected

C18_StoreFailureAbortsOperation ==
    (last.op \in {"toggle_completed", "delete_selected"} /\ last.arg = "Err") =>
        /\ pc = "running"
        /\ items = last.items
        /\ selected = last.selected
        /\ sorted_by = last.sorted_by

\* C19: when insert_task or update_task fails in save_task after the
\* validations have passed, the dialog stays open with buffers, cursor and
\* task_id unchanged and no error message set
C19_CommitFailureKeepsDialog ==
    [][ (last'.op = "save_task" /\ last'.arg = "Err") =>
            /\ pc' = "running"
            /\ dialog_active'
            /\ content' = content
            /\ cursor_position' = cursor_position
            /\ task_id' = task_id
            /\ error_message' = <<>> ]_vars

\* C12: next() selects 0 when nothing is selected, i + 1 when index i of a
\* non-empty list is selected (0 when i is the last index), and 0 on an empty
\* list whatever was selected; it never fails
C12_SelectNext ==
    last.op = "next" =>
        /\ pc = "running"
        /\ IF last.selected = <<>> \/ Len(last.items) = 0 THEN selected = <<0>>
           ELSE IF last.selected[1] = Len(last.items) - 1 THEN selected = <<0>>
           ELSE last.selected[1] < Len(last.items) - 1 =>
                    selected = <<last.selected[1] + 1>>

\* C13: previous() selects i - 1 when index i > 0 is selected, len - 1 when
\* index 0 of a non-empty list is selected, and 0 on an empty list whatever
\* was selected; it never fails
C13_SelectPrevious ==
    (last.op = "previous" /\ last.selected # <<>>) =>
        /\ pc = "running"
        /\ IF Len(last.items) = 0 THEN selected = <<0>>
           ELSE IF last.selected[1] = 0 THEN selected = <<Len(last.items) - 1>>
           ELSE selected = <<last.selected[1] - 1>>

\* C20: the table exists before the store is first read or written, so the
\* load of App::new on a database without the table succeeds and gives an
\* empty list
C20_SchemaBeforeFirstUse ==
    last.op = "App::new" =>
        /\ db_table
        /\ pc = "running"
        /\ ~last.db_table => items = <<>>

(***************************************************************************)
(* SpecViews: a session on a database earlier sessions have filled, in     *)
(* which the user selects, toggles and sorts, and the statistics box is    *)
(* drawn at some time of some day                                          *)
(***************************************************************************)
\* the day after date
NextDay(date) ==
    IF date.day < DaysInMonth(date.year, date.month)
    THEN [date EXCEPT !.day = @ + 1]
    ELSE IF date.month < 12
    THEN [date EXCEPT !.month = @ + 1, !.day = 1]
    ELSE [year |-> date.year + 1, month |-> 1, day |-> 1]

RECURSIVE AddDays(_, _)
\* date + n days
AddDays(date, n) == IF n = 0 THEN date ELSE AddDays(NextDay(date), n - 1)

\* Utc::now(): a day and the seconds since its midnight.  The clocks the
\* frames are drawn at: around 29.02.2024 and its week before, at midnight
\* and one second later
Clocks ==
    [day : {Date(2024, 2, 21), Date(2024, 2, 22), Date(2024, 2, 28),
            Date(2024, 2, 29), Date(2024, 3, 1)},
     secs : {0, 1}]

\* a due date (midnight of date) < the instant at
DueBefore(date, at) ==
    \/ DateLess(date, at.day)
    \/ date = at.day /\ 0 < at.secs

\* get_uncompleted()
get_uncompleted(its) ==
    LET Keep(task) == ~task.completed
    IN  SelectSeq(its, Keep)

\* get_due_next_week() at the time now
get_due_next_week(its, now) ==
    LET next_week == [now EXCEPT !.day = AddDays(@, 7)]
        Keep(task) == ~task.completed /\ DueBefore(task.due_date, next_week)
    IN  SelectSeq(its, Keep)

\* mutant of get_late: a task due today is late
get_late_today(its, now) ==
    LET Keep(task) == ~task.completed /\ ~DateLess(now.day, task.due_date)
    IN  SelectSeq(its, Keep)

\* get_late() at the time now
get_late(its, now) ==
    LET beginning_of_day == [now EXCEPT !.secs = 0]
        Keep(task) == ~task.completed /\ DueBefore(task.due_date, beginning_of_day)
    IN  SelectSeq(its, Keep)

\* draw_ui with the dialog closed: get_statistics_ui computes the three views
DrawUi ==
    /\ InList
    /\ \E now \in Clocks :
           Handled("draw_ui", [now |-> now,
                               uncompleted |-> get_uncompleted(items),
                               due_next_week |-> get_due_next_week(items, now),
                               late |-> get_late(items, now)])
    /\ UNCHANGED <<store_vars, list_vars, dialog_vars, pc>>

NextViews ==
    \/ DrawUi
    \/ ListNext
    \/ ListToggle
    \/ ListSort("ByName")

SpecViews == InitList /\ [][NextViews]_vars

(***************************************************************************)
(* SpecReload: a session on a table of MaxRows + 1 tasks, in which the     *)
(* user sorts, selects and deletes, and opens the create dialog and        *)
(* leaves it with Enter or Esc                                             *)
(***************************************************************************)
InitReload ==
    /\ db_table = TRUE
    /\ db_rows \in { [i \in 1..(MaxRows + 1) |-> TaskToRow(f[i], i)] :
                        f \in [1..(MaxRows + 1) -> TaskPool] }
    /\ db_seq = Len(db_rows)
    /\ items = get_all_tasks(db_rows)
    /\ selected = <<>>
    /\ sorted_by = <<>>
    /\ dialog_active = FALSE
    /\ task_id = <<>>
    /\ content = <<>>
    /\ error_message = <<>>
    /\ cursor_position = <<>>
    /\ pc = "running"
    /\ last = Snapshot("start", "")
    /\ trail = <<>>

NextReload ==
    \/ \E key \in SortKeys : ListSort(key)
    \/ ListNext
    \/ ListDelete
    \/ ListCreate
    \/ DialogEnter
    \/ DialogEsc

SpecReload == InitReload /\ [][NextReload]_vars

(***************************************************************************)
(* SpecRoute: a session on a database earlier sessions have filled with    *)
(* open tasks, in which the user selects, sorts, opens the dialog with     *)
(* 'a' or 'e', moves in it, types 'a', deletes what fits the typing        *)
(* bounds, and leaves it with Esc                                          *)
(***************************************************************************)
\* KeyCode::Backspace, on a row whose buffer is within the typing bounds
DialogBackspaceTyped ==
    /\ LET y == CursorOrOrigin(cursor_position)[2]
       IN  y \in 0..2 =>
               ByteLen(content_of_string_at_y_pos(content, y)) <= MaxLenOfRow(y)
    /\ DialogBackspace

InitRoute ==
    /\ db_table = TRUE
    /\ db_rows \in TablesOf({ t \in CommitPool : ~t.completed })
    /\ db_seq = Len(db_rows)
    /\ items = get_all_tasks(db_rows)
    /\ selected = <<>>
    /\ sorted_by = <<>>
    /\ dialog_active = FALSE
    /\ task_id = <<>>
    /\ content = <<>>
    /\ error_message = <<>>
    /\ cursor_position = <<>>
    /\ pc = "running"
    /\ last = Snapshot("start", "")
    /\ trail = <<>>

NextRoute ==
    \/ DialogDown
    \/ DialogUp
    \/ DialogLeft
    \/ DialogRight
    \/ DialogEsc
    \/ DialogBackspaceTyped
    \/ DialogChar("a")
    \/ ListQuit
    \/ ListUnselect
    \/ ListNext
    \/ ListCreate
    \/ ListEdit
    \/ ListSort("ByName")

SpecRoute == InitRoute /\ [][NextRoute]_vars

(***************************************************************************)
(* Reading the table (storage.rs get_all_tasks)                            *)
(***************************************************************************)
\* text is a date as the DueDate column holds it: yyyy-mm-dd of a real day
WellFormedDate(text) ==
    /\ Len(text) = 10
    /\ \A i \in 1..10 : IF i \in {5, 8} THEN text[i] = "-" ELSE IsDigit(text[i])
    /\ IsRealDate(DigitsValue(SubSeq(text, 1, 4)), DigitsValue(SubSeq(text, 6, 7)),
                  DigitsValue(SubSeq(text, 9, 10)))

\* the positions of the well-formed rows of rows, in table order
WellFormedPositions(rows) ==
    LET RECURSIVE Collect(_)
        Collect(i) == IF i > Len(rows) THEN <<>>
                      ELSE (IF WellFormedDate(rows[i].DueDate) THEN <<i>> ELSE <<>>)
                           \o Collect(i + 1)
    IN  Collect(1)

\* task holds what row holds
TaskOfRow(task, row) ==
    /\ task.id = <<row.Id>>
    /\ task.title = row.Title
    /\ task.description = row.Description
    /\ task.priority = row.PriorityLevel
    /\ task.completed = (row.Completed # 0)
    /\ DateToSql(task.due_date) = row.DueDate

\* the list was read from the table by the last event, and the read did not fail
ListJustRead ==
    /\ pc = "running"
    /\ last.arg = ""
    /\ last.op \in {"App::new", "delete_selected"}

\* C21: a read of the table gives one task for every well-formed row, in
\* table order, and none for a malformed row; a malformed row neither
\* removes nor reorders the others, and does not end the read
C21_ReadSkipsMalformedRows ==
    ListJustRead =>
        LET pos == WellFormedPositions(db_rows)
        IN  /\ Len(items) = Len(pos)
            /\ \A k \in 1..Len(pos) : TaskOfRow(items[k], db_rows[pos[k]])

\* a table of three rows, the middle one malformed, has been read at start
C21_Witness ==
    /\ pc = "running"
    /\ last.op = "App::new"
    /\ last.arg = ""
    /\ Len(db_rows) = 3
    /\ WellFormedPositions(db_rows) = <<1, 3>>
    /\ Len(items) = 2
    /\ items[1].id = <<1>>
    /\ items[2].id = <<3>>

\* C22 as the claim states it: when the read fails as a whole, the caller
\* does not go on with an empty or a partial list
C22_ReadFailureSurfaced ==
    (last.op = "App::new" /\ last.arg = "Err") => pc # "running"

(***************************************************************************)
(* Opening and leaving the dialog (task_edit.rs, ui.rs)                    *)
(***************************************************************************)
\* C23 as the claim states it: 'a' opens an empty create dialog whose cursor
\* stands on row 0 at the length of the row's placeholder, wherever an
\* earlier dialog left it
C23_CreateResetsDialog ==
    last.op = "create_a_new_task" =>
        /\ dialog_active
        /\ task_id = <<>>
        /\ content = <<DefaultContent>>
        /\ ShownCursor(cursor_position) = <<PlaceholderLen, 0>>

\* text is date written as dd.mm.yyyy
IsDayMonthYear(text, date) ==
    /\ Len(text) = 10
    /\ \A i \in 1..10 : IF i \in {3, 6} THEN text[i] = "." ELSE IsDigit(text[i])
    /\ DigitsValue(SubSeq(text, 1, 2)) = date.day
    /\ DigitsValue(SubSeq(text, 4, 5)) = date.month
    /\ DigitsValue(SubSeq(text, 7, 10)) = date.year

\* C24: 'e' on a selected task opens the dialog on it: its id, title,
\* description and priority, its due date written dd.mm.yyyy, the cursor
\* at row 0, column 0
C24_EditLoadsTask ==
    (last.op = "edit_task" /\ HadSelected) =>
        LET task == last.items[last.selected[1] + 1]
        IN  /\ dialog_active
            /\ task_id = task.id
            /\ content # <<>>
            /\ content[1].title = task.title
            /\ content[1].description = task.description
            /\ content[1].priority = task.priority
            /\ IsDayMonthYear(content[1].due_date, task.due_date)
            /\ cursor_position = <<<<0, 0>>>>

\* the dialog has been opened on the task of 29.02.2024
C24_Witness ==
    /\ last.op = "edit_task"
    /\ HadSelected
    /\ dialog_active
    /\ task_id = last.items[last.selected[1] + 1].id
    /\ content[1].due_date = <<"2", "9", ".", "0", "2", ".", "2", "0", "2", "4">>

\* C25 as the claim states it: Esc closes the dialog without a write and
\* clears the error, so that no error of an earlier Enter is there after
\* Esc or when the dialog is opened again
C25_CancelClearsError ==
    /\ last.op = "cancel" => (~dialog_active /\ error_message = <<>> /\ StoreUntouched)
    /\ (last.op \in {"create_a_new_task", "edit_task"} /\ dialog_active) =>
           error_message = <<>>

(***************************************************************************)
(* Typing and moving in the dialog (task_edit.rs)                          *)
(***************************************************************************)
\* the step handles op while the dialog is open on some content
DialogStep(op) ==
    /\ last'.op = op
    /\ pc = "running"
    /\ dialog_active
    /\ content # <<>>

\* the three text buffers are left as they are
TextBuffersKept ==
    /\ content' # <<>>
    /\ content'[1].title = content[1].title
    /\ content'[1].description = content[1].description
    /\ content'[1].due_date = content[1].due_date

\* C26: a key typed on the priority row sets the priority to its value when
\* it is '0', '1' or '2' and leaves it otherwise; the text buffers are
\* unchanged and the cursor column becomes min(column + 1, 1)
C26_PriorityKey ==
    [][ (DialogStep("input") /\ CursorOrOrigin(cursor_position)[2] = 3) =>
            LET c == last'.arg
                cur == CursorOrOrigin(cursor_position)
            IN  /\ content'[1].priority =
                       (IF c = "0" THEN 0 ELSE IF c = "1" THEN 1
                        ELSE IF c = "2" THEN 2 ELSE content[1].priority)
                /\ TextBuffersKept
                /\ cursor_position' = <<<<Min(cur[1] + 1, 1), 3>>>>
                /\ pc' = "running" ]_vars

\* '0' has been typed on the priority row over a priority of 2
C26_Witness ==
    /\ last.op = "input"
    /\ last.arg = "0"
    /\ dialog_active
    /\ content # <<>>
    /\ content[1].priority = 0
    /\ content[1].title = <<"a">>
    /\ cursor_position = <<<<1, 3>>>>

\* the events the dialog handles
EditorOps ==
    {"move_cursor_down", "move_cursor_up", "move_cursor_left", "move_cursor_right",
     "cancel", "save_task", "delete_char", "input"}

\* C27: while the dialog is open every event is handled by the dialog, and
\* cursor moves, typing, deleting and Esc leave the store, the list, the
\* selection and the sort key as they are; while it is closed only 'a' and
\* 'e' change the dialog's state
C27_EventRouting ==
    [][ /\ (pc = "running" /\ dialog_active) =>
              /\ last'.op \in EditorOps
              /\ pc' # "quit"
        /\ (pc = "running" /\ dialog_active /\ last'.op # "save_task") =>
              UNCHANGED <<store_vars, list_vars>>
        /\ (pc = "running" /\ ~dialog_active) =>
              /\ last'.op \notin EditorOps
              /\ last'.op \notin {"create_a_new_task", "edit_task"} =>
                     UNCHANGED dialog_vars ]_vars

\* 'a' has been typed in the dialog while the second of two tasks is
\* selected in a sorted list
C27_Witness ==
    /\ dialog_active
    /\ last.op = "input"
    /\ Len(items) = 2
    /\ selected = <<1>>
    /\ sorted_by # <<>>
    /\ content # <<>>
    /\ content[1].description = <<"a", "a">>

\* the text of row y of the dialog, the priority written as a number
RowBuffer(rec, y) ==
    IF y = 0 THEN rec.title
    ELSE IF y = 1 THEN rec.description
    ELSE IF y = 2 THEN rec.due_date
    ELSE IntToString(rec.priority)

\* C28: Down moves the cursor to row min(row + 1, 3) and clamps the column
\* to the length of that row's buffer; no buffer changes
C28_MoveDown ==
    [][ DialogStep("move_cursor_down") =>
            LET cur == CursorOrOrigin(cursor_position)
                row == IF cur[2] + 1 < 3 THEN cur[2] + 1 ELSE 3
                len == ByteLen(RowBuffer(content[1], row))
            IN  /\ cursor_position' = <<<<IF cur[1] < len THEN cur[1] ELSE len, row>>>>
                /\ content' = content
                /\ pc' = "running" ]_vars

\* Down has taken the cursor from behind the title to the empty description
C28_Witness ==
    /\ last.op = "move_cursor_down"
    /\ dialog_active
    /\ content # <<>>
    /\ content[1].title = <<"a">>
    /\ content[1].description = <<>>
    /\ content[1].due_date = <<>>
    /\ cursor_position = <<<<0, 1>>>>

C30_InsertAtColumn ==
    [][ (DialogStep("input") /\ CursorOrOrigin(cursor_position)[2] \in 0..2) =>
            LET cur == CursorOrOrigin(cursor_position)
                row == cur[2]
                buf == RowBuffer(content[1], row)
                col == IF buf = <<>> THEN 0 ELSE cur[1]
            IN  /\ pc' = "running"
                /\ content' = <<WithBuffer(content[1], row, StringInsert(buf, col, last'.arg))>>
                /\ cursor_position' = <<<<col + 1, row>>>> ]_vars

\* C31 as the claim states it: Backspace at column 0 changes nothing; on a
\* text row it removes the character at column - 1 when the column is at or
\* behind the end of the buffer and at the column otherwise, and the cursor
\* moves one column to the left; on the priority row the priority is kept
C31_DeleteChar ==
    [][ DialogStep("delete_char") =>
            LET cur == CursorOrOrigin(cursor_position)
                row == cur[2]
                buf == RowBuffer(content[1], row)
                p == IF cur[1] >= ByteLen(buf) THEN cur[1] - 1 ELSE cur[1]
            IN  /\ pc' = "running"
                /\ IF cur[1] = 0
                   THEN content' = content /\ cursor_position' = cursor_position
                   ELSE IF row \in 0..2
                   THEN /\ content' = <<WithBuffer(content[1], row, StringRemove(buf, p))>>
                        /\ cursor_position' = <<<<cur[1] - 1, row>>>>
                   ELSE content' = content ]_vars

(***************************************************************************)
(* The views of the statistics box (task_list.rs)                          *)
(***************************************************************************)
\* days from 01.01.0001 to date
DayNumber(date) ==
    LET y == date.year - 1
        before == <<0, 31, 59, 90, 120, 151, 181, 212, 243, 273, 304, 334>>
    IN  365 * y + (y \div 4) - (y \div 100) + (y \div 400) + before[date.month]
        + (IF date.month > 2 /\ IsLeapYear(date.year) THEN 1 ELSE 0) + date.day - 1

\* the instants of the clocks and the due dates on one scale: secs is 0 or
\* 1, so two ticks a day order them as the seconds do
Ticks(at) == 2 * DayNumber(at.day) + at.secs

\* the tasks of its at the positions in keep, in the order of its
TasksAt(its, keep) ==
    LET RECURSIVE Collect(_)
        Collect(i) == IF i > Len(its) THEN <<>>
                      ELSE (IF i \in keep THEN <<its[i]>> ELSE <<>>) \o Collect(i + 1)
    IN  Collect(1)

\* C32: the three views are filters of the list as it is, in its order:
\* the uncompleted tasks; those of them due before now + 7 days; those of
\* them due before the start of today (a task due today is not among
\* them); computing them changes nothing
C32_ViewsAreFilters ==
    last.op = "draw_ui" =>
        LET now == Ticks(last.arg.now)
            today == 2 * DayNumber(last.arg.now.day)
            Due(i) == 2 * DayNumber(items[i].due_date)
            open == { i \in 1..Len(items) : ~items[i].completed }
        IN  /\ last.arg.uncompleted = TasksAt(items, open)
            /\ last.arg.due_next_week =
                   TasksAt(items, { i \in open : Due(i) < now + 7 * 2 })
            /\ last.arg.late = TasksAt(items, { i \in open : Due(i) < today })
            /\ items = last.items
            /\ selected = last.selected
            /\ sorted_by = last.sorted_by
            /\ StoreUntouched

\* a frame drawn on 29.02.2024 after midnight, with a task due that day
\* among the uncompleted ones but not among the late ones
C32_Witness ==
    /\ last.op = "draw_ui"
    /\ last.arg.now = [day |-> Date(2024, 2, 29), secs |-> 1]
    /\ Len(items) = 2
    /\ Len(last.arg.uncompleted) = 1
    /\ last.arg.uncompleted[1].due_date = Date(2024, 2, 29)
    /\ last.arg.due_next_week = last.arg.uncompleted
    /\ last.arg.late = <<>>

(***************************************************************************)
(* Invariants of the session                                               *)
(***************************************************************************)
\* C33 as the claim states it: no key typed or deleted in the dialog
\* addresses a position outside the buffer or inside a character, so that
\* String::insert and String::remove never panic
C33_EditNeverPanics ==
    ~(pc = "panicked" /\ last.op \in {"input", "delete_char"})

\* the list holds exactly the tasks the table's well-formed rows hold
ListMatchesStore ==
    LET pos == WellFormedPositions(db_rows)
    IN  /\ Len(items) = Len(pos)
        /\ \A k \in 1..Len(pos) :
               \E i \in 1..Len(items) : TaskOfRow(items[i], db_rows[pos[k]])

\* C34 as the claim states it: after every key the session has handled the
\* list holds exactly the tasks of the store, field by field, in some order
C34_CacheCoherent ==
    (pc = "running" /\ last.op \in {"next", "toggle_completed", "delete_selected"}) =>
        ListMatchesStore

\* its is entirely non-decreasing or entirely non-increasing by key
Monotone(its, key) ==
    \/ \A i, j \in 1..Len(its) : i < j => ~KeyOrder(key, its[j], its[i])
    \/ \A i, j \in 1..Len(its) : i < j => ~KeyOrder(key, its[i], its[j])

\* C35 as the claim states it: while a sort key is set the list is monotone
\* by it, after every event, the reloads of delete_selected and of Enter in
\* the dialog included
C35_SortedWhileKeySet ==
    (pc = "running" /\ sorted_by # <<>>) => Monotone(items, sorted_by[1])

\* C36 as the claim states it: the selection is none or the index of a task
\* of the list, in every state of the session
C36_SelectionInRange ==
    (pc = "running" /\ selected # <<>>) => selected[1] < Len(items)

(***************************************************************************)
(* Editing a stored task without a change                                  *)
(***************************************************************************)
\* C37: Enter pressed right after 'e' has opened the dialog on a stored
\* task is accepted and closes the dialog; the table keeps its rows, the
\* task's row keeps its id, title, description, due date and priority and
\* is uncompleted, and no other row changes
C37_EditRoundTrip ==
    [][ (pc = "running" /\ dialog_active /\ last.op = "edit_task"
         /\ last'.op = "save_task") =>
            /\ last'.arg = ""
            /\ error_message' = <<>>
            /\ ~dialog_active'
            /\ pc' = "running"
            /\ Len(db_rows') = Len(db_rows)
            /\ \E i \in 1..Len(db_rows) : task_id = <<db_rows[i].Id>>
            /\ \A i \in 1..Len(db_rows) :
                  db_rows'[i] = IF task_id = <<db_rows[i].Id>>
                                THEN [db_rows[i] EXCEPT !.Completed = 0]
                                ELSE db_rows[i] ]_vars

\* the completed task of 01.01.0001 has been opened and saved as it was
C37_Witness ==
    /\ last.op = "save_task"
    /\ ~dialog_active
    /\ error_message = <<>>
    /\ task_id # <<>>
    /\ content # <<>>
    /\ content[1].due_date = <<"0", "1", ".", "0", "1", ".", "0", "0", "0", "1">>
    /\ \E i \in 1..Len(db_rows) :
          /\ task_id = <<db_rows[i].Id>>
          /\ db_rows[i].DueDate = <<"0", "0", "0", "1", "-", "0", "1", "-", "0", "1">>
          /\ db_rows[i].Title = content[1].title
          /\ db_rows[i].Completed = 0
          /\ last.db_rows[i].Completed = 1

====
